---- MODULE Spec2Model ----
(***************************************************************************)
(* Model of the user authentication middleware (src/middleware/auth.js).   *)
(*                                                                         *)
(* Requests are handled concurrently and interleave at their suspension    *)
(* points, the awaited store and provider calls.  An action is one access  *)
(* of a request to the shared state: the synchronous code that leads to    *)
(* the call, the call, which takes effect when it is issued, and the code  *)
(* that follows its return up to the next call, which reads and writes     *)
(* only the request's own variables.  A provider call is answered in the   *)
(* action that resumes from it.                                            *)
(*                                                                         *)
(* Strings are TLA+ strings, "" is the empty string.  A ciphertext is the  *)
(* pair <<key, value>> and <<>> is the empty ciphertext; a digest is       *)
(* <<"md5", value>>.  A cardnum is the tuple of its characters.            *)
(***************************************************************************)
EXTENDS Naturals, Sequences, FiniteSets

(* ----------------------------- bounds --------------------------------- *)

\* total number of requests started in one behaviour
MaxRequests == 3

\* number of password changes made at the providers in one behaviour
MaxChanges == 1

\* the same two bounds when the requests run one after the other
SeqMaxRequests == 4

SeqMaxChanges == 2

\* the clock (Date.getTime) runs from 0 to MaxClock
MaxClock == 1

\* the same two bounds when the requests run one after the other with the
\* wider sets of card numbers and platforms
WideMaxRequests == 3

WideMaxChanges == 1

(* ----------------------------- values --------------------------------- *)

\* the request slots: two requests can be in flight at the same time
Req == {"r1", "r2"}

Digits == {"0", "1", "2", "3", "4", "5", "6", "7", "8", "9"}

\* an undergraduate card number and a graduate card number
CardA == <<"2", "1", "3", "1", "7", "1", "2", "3", "4">>

CardG == <<"2", "2", "0", "1", "2", "3", "4", "5">>

\* a card number that begins with 22 and is shorter than eight digits
CardS == <<"2", "2", "1", "2", "3">>

Cardnums == {CardA, CardG, CardS}

Passwords == {"p1", "p2"}

GPasswords == {"g1", "g2"}

Platforms == {"app", "web"}

\* ctx.method
Methods == {"POST", "post", "GET"}

\* the tokens crypto.randomBytes(20) yields, in the order they are minted
TokenNames == <<"t1", "t2", "t3", "t4", "t5">>

\* a token header value that was never issued
ForgedToken == "tx"

E401 == "401"

\* any failure of a provider that is not a credential rejection
EOther == "ECONNREFUSED"

NoError == "none"

E405 == "405"

\* the error thrown for a missing platform
EPlatform == "platform"

(* ------------------------------ state --------------------------------- *)

VARIABLES
    store,      \* the auth table: a set of AuthRecords
    upstream,   \* the credentials the providers accept, per card number
    clock,      \* new Date().getTime()
    minted,     \* number of tokens crypto.randomBytes has produced
    started,    \* number of requests started
    changes,    \* number of password changes made at the providers
    req,        \* per request slot: its position and its local variables
    load        \* the deployment: the slots in use, the bounds of the
                \* behaviour, the inputs, and config.auth.cipher

vars == <<store, upstream, clock, minted, started, changes, req, load>>

(* ------------------------- crypto primitives -------------------------- *)

\* whether the decipher of config.auth.cipher throws: the cipher is not
\* known, the ciphertext is malformed (empty), or the key is wrong
CipherFails(key, value) ==
    \/ ~load.cipherKnown
    \/ value = <<>>
    \/ value[1] # key

\* encrypt with the value it could not encrypt returned under no key
encryptLeaks(key, value) ==
    IF load.cipherKnown THEN <<key, value>> ELSE <<"", value>>

\* crypto.createCipher throws when config.auth.cipher is not known
encrypt(key, value) ==
    IF load.cipherKnown THEN <<key, value>> ELSE <<>>

decrypt(key, value) ==
    IF CipherFails(key, value) THEN "" ELSE value[2]

hash(value) ==
    <<"md5", value>>

\* cardnum + name, the argument of hash for the identity
Concat(cardnum, name) ==
    <<cardnum, name>>

\* /^22\d*(\d{6})$/.test(cardnum)
IsGraduateCard(cardnum) ==
    /\ Len(cardnum) >= 8
    /\ cardnum[1] = "2"
    /\ cardnum[2] = "2"
    /\ \A i \in 1 .. Len(cardnum) : cardnum[i] \in Digits

\* RegExp.$1, the trailing six digits
SubIdentity(cardnum) ==
    SubSeq(cardnum, Len(cardnum) - 5, Len(cardnum))

\* /^22/.test(cardnum)
HasGraduatePrefix(cardnum) ==
    /\ Len(cardnum) >= 2
    /\ cardnum[1] = "2"
    /\ cardnum[2] = "2"

(* ------------------------------ store --------------------------------- *)

\* db.auth.find(filter, 1): no record, or one of the matching records
FindByPair(s, cardnum, platform) ==
    LET m == {rec \in s : rec.cardnum = cardnum /\ rec.platform = platform}
    IN  IF m = {} THEN {{}} ELSE {{rec} : rec \in m}

FindByTokenHash(s, tokenHash) ==
    LET m == {rec \in s : rec.tokenHash = tokenHash}
    IN  IF m = {} THEN {{}} ELSE {{rec} : rec \in m}

\* db.auth.insert(record)
Insert(s, rec) ==
    s \cup {rec}

\* db.update({ cardnum, platform }, patch)
UpdateSecrets(s, cardnum, platform, patch) ==
    {IF rec.cardnum = cardnum /\ rec.platform = platform
        THEN [rec EXCEPT !.passwordEncrypted = patch.passwordEncrypted,
                         !.gpasswordEncrypted = patch.gpasswordEncrypted,
                         !.tokenEncrypted = patch.tokenEncrypted,
                         !.passwordHash = patch.passwordHash]
        ELSE rec : rec \in s}

\* db.auth.update({ tokenHash }, { lastInvoked: now })
UpdateLastInvoked(s, tokenHash, now) ==
    {IF rec.tokenHash = tokenHash
        THEN [rec EXCEPT !.lastInvoked = now]
        ELSE rec : rec \in s}

\* db.auth.remove({ tokenHash })
Remove(s, tokenHash) ==
    {rec \in s : rec.tokenHash # tokenHash}

(* ------------------------- upstream providers ------------------------- *)

\* the profile the primary provider returns for a card number
Profile(cardnum) ==
    IF cardnum = CardA
        THEN [name |-> "Ann", schoolnum |-> "07017101"]
        ELSE [name |-> "Bob", schoolnum |-> ""]

\* graduateAuthProvider(ctx, subIdentity, gpassword): the answers it can give
GraduateProvider(up, subIdentity, gpassword) ==
    IF \E c \in DOMAIN up : /\ IsGraduateCard(c)
                            /\ SubIdentity(c) = subIdentity
                            /\ up[c].gpassword = gpassword
        THEN {"ok", EOther}
        ELSE {E401, EOther}

\* authProvider(ctx, cardnum, password): the answers it can give
PrimaryProvider(up, cardnum, password) ==
    IF cardnum \in DOMAIN up /\ up[cardnum].password = password
        THEN {"ok", EOther}
        ELSE {E401, EOther}

(* -------------------------- identity context -------------------------- *)

\* ctx.user before this middleware has set it
NoUser ==
    [getters |-> {}, val |-> [unset |-> TRUE]]

\* ctx.user && ctx.user.isLogin
IsLoggedIn(user) ==
    /\ "isLogin" \in DOMAIN user.val
    /\ user.val.isLogin

\* the anonymous ctx.user: getters lists the properties whose getter calls
\* reject(), val holds the plain data properties
AnonymousUser ==
    [getters |-> {"encrypt", "decrypt", "identity", "cardnum", "password",
                  "gpassword", "name", "schoolnum", "platform"},
     val |-> [isLogin |-> FALSE]]

\* the same context with the identity computed from the token
AuthenticatedUserByToken(record, token) ==
    [getters |-> {},
     val |-> [isLogin |-> TRUE,
              encrypt |-> <<"encrypt.bind", token>>,
              decrypt |-> <<"decrypt.bind", token>>,
              token |-> hash(token),
              identity |-> hash(Concat(record.cardnum, token)),
              cardnum |-> record.cardnum,
              password |-> decrypt(token, record.passwordEncrypted),
              gpassword |-> IF HasGraduatePrefix(record.cardnum)
                               THEN decrypt(token, record.gpasswordEncrypted)
                               ELSE "",
              name |-> record.name,
              schoolnum |-> record.schoolnum,
              platform |-> record.platform]]

\* the ctx.user of a request whose token matched record
AuthenticatedUser(record, token) ==
    [getters |-> {},
     val |-> [isLogin |-> TRUE,
              encrypt |-> <<"encrypt.bind", token>>,
              decrypt |-> <<"decrypt.bind", token>>,
              token |-> hash(token),
              identity |-> hash(Concat(record.cardnum, record.name)),
              cardnum |-> record.cardnum,
              password |-> decrypt(token, record.passwordEncrypted),
              gpassword |-> IF HasGraduatePrefix(record.cardnum)
                               THEN decrypt(token, record.gpasswordEncrypted)
                               ELSE "",
              name |-> record.name,
              schoolnum |-> record.schoolnum,
              platform |-> record.platform]]

\* auth.bind(undefined, ctx, cardnum, password, gpassword)
BoundAuth(record, token) ==
    [cardnum |-> record.cardnum,
     password |-> decrypt(token, record.passwordEncrypted),
     gpassword |-> IF HasGraduatePrefix(record.cardnum)
                      THEN decrypt(token, record.gpasswordEncrypted)
                      ELSE ""]

\* the properties of the identity context of a logged-in request
UserFields ==
    {"isLogin", "encrypt", "decrypt", "token", "identity", "cardnum",
     "password", "gpassword", "name", "schoolnum", "platform"}

\* reading ctx.user[field]: the getter throws 401, or the read yields the
\* property's value, or undefined when there is no such property
ReadOutcome(user, field) ==
    IF field \in user.getters THEN E401
    ELSE IF field \in DOMAIN user.val THEN "value"
    ELSE "undefined"

(* ------------------------ login computations -------------------------- *)

\* gpassword = gpassword || password
DefaultGPassword(gpassword, password) ==
    IF gpassword = "" THEN password ELSE gpassword

\* the same condition with the digest of the token compared in place of
\* the digest of the password
NeedsAuthTokenDigest(existing, token, cardnum, password, gpassword) ==
    \/ existing.passwordHash # hash(token)
    \/ /\ HasGraduatePrefix(cardnum)
       /\ gpassword # decrypt(token, existing.gpasswordEncrypted)

\* the condition under which a login that decrypted the token goes to auth
NeedsAuth(existing, token, cardnum, password, gpassword) ==
    \/ existing.passwordHash # hash(password)
    \/ /\ HasGraduatePrefix(cardnum)
       /\ gpassword # decrypt(token, existing.gpasswordEncrypted)

\* the fields a refresh writes
RefreshPatch(token, cardnum, password, gpassword) ==
    [passwordEncrypted |-> encrypt(token, password),
     gpasswordEncrypted |-> IF HasGraduatePrefix(cardnum)
                               THEN encrypt(token, gpassword)
                               ELSE <<>>,
     tokenEncrypted |-> encrypt(password, token),
     passwordHash |-> hash(password)]

\* the record a login would insert if it swapped key and value of the
\* two encryptions
NewRecordSwapped(token, cardnum, password, gpassword, platform, profile, now) ==
    [cardnum |-> cardnum,
     tokenHash |-> hash(token),
     tokenEncrypted |-> encrypt(token, password),
     passwordEncrypted |-> encrypt(password, token),
     passwordHash |-> hash(password),
     gpasswordEncrypted |-> IF HasGraduatePrefix(cardnum)
                               THEN encrypt(token, gpassword)
                               ELSE <<>>,
     name |-> profile.name,
     schoolnum |-> profile.schoolnum,
     platform |-> platform,
     registered |-> now,
     lastInvoked |-> now]

\* the record a login inserts
NewRecord(token, cardnum, password, gpassword, platform, profile, now) ==
    [cardnum |-> cardnum,
     tokenHash |-> hash(token),
     tokenEncrypted |-> encrypt(password, token),
     passwordEncrypted |-> encrypt(token, password),
     passwordHash |-> hash(password),
     gpasswordEncrypted |-> IF HasGraduatePrefix(cardnum)
                               THEN encrypt(token, gpassword)
                               ELSE <<>>,
     name |-> profile.name,
     schoolnum |-> profile.schoolnum,
     platform |-> platform,
     registered |-> now,
     lastInvoked |-> now]

\* the same with a 401 removing the records of the pair of any request
StoreAfterCatchByPair(s, e, q) ==
    IF e = E401
        THEN {rec \in s : ~(rec.cardnum = q.cardnum
                             /\ rec.platform = q.platform)}
        ELSE s

\* the same with the record never removed
StoreAfterCatchKeeps(s, e, q) ==
    s

\* the same with any error of a logged-in request removing its record
StoreAfterCatchAnyError(s, e, q) ==
    IF IsLoggedIn(q.user)
        THEN Remove(s, q.user.val.token)
        ELSE s

\* the store after the catch of auth has handled e for the request q: a 401
\* of a request whose ctx.user is logged in removes the record of its token
StoreAfterCatch(s, e, q) ==
    IF e = E401 /\ IsLoggedIn(q.user)
        THEN Remove(s, q.user.val.token)
        ELSE s

(* -------------------------- initial states --------------------------- *)

\* a slot with no request in it
IdleReq ==
    [pc |-> "idle", kind |-> "none", method |-> "",
     cardnum |-> <<>>, password |-> "", gpassword |-> "", platform |-> "",
     hdr |-> "", found |-> {}, token |-> "", ret |-> "none",
     user |-> NoUser, useAuthCookie |-> {}, nextCalls |-> 0, read |-> "",
     body |-> "", err |-> NoError]

InitState ==
    /\ store = {}
    /\ upstream = [c \in load.cardnums |->
                      [password |-> "p1", gpassword |-> "g1"]]
    /\ clock = 0
    /\ minted = 0
    /\ started = 0
    /\ changes = 0
    /\ req = [r \in Req |-> IdleReq]

\* requests in both slots
Init ==
    /\ load = [slots |-> Req, requests |-> MaxRequests,
               changes |-> MaxChanges, cardnums |-> {CardA, CardG},
               platforms |-> {"app"}, cipherKnown |-> TRUE]
    /\ InitState

\* requests in one slot, one after the other
InitSeq ==
    /\ load = [slots |-> {"r1"}, requests |-> SeqMaxRequests,
               changes |-> SeqMaxChanges, cardnums |-> {CardA, CardG},
               platforms |-> {"app"}, cipherKnown |-> TRUE]
    /\ InitState

\* requests one after the other, with every card number and platform
InitWide ==
    /\ load = [slots |-> {"r1"}, requests |-> WideMaxRequests,
               changes |-> WideMaxChanges, cardnums |-> Cardnums,
               platforms |-> Platforms, cipherKnown |-> TRUE]
    /\ InitState

\* requests one after the other, with config.auth.cipher known or not
InitCipher ==
    /\ \E known \in BOOLEAN :
          load = [slots |-> {"r1"}, requests |-> WideMaxRequests,
                  changes |-> WideMaxChanges, cardnums |-> {CardA, CardG},
                  platforms |-> {"app"}, cipherKnown |-> known]
    /\ InitState

\* a slot is free before its first request and once its request is done
Free(r) ==
    /\ r \in load.slots
    /\ req[r].pc \in {"idle", "done"}
    /\ started < load.requests

\* the parameters of the login requests: only the clients of graduate
\* cards send a gpassword
LoginParams ==
    {x \in load.cardnums \X Passwords \X (GPasswords \cup {""}) :
        HasGraduatePrefix(x[1]) \/ x[3] = ""}

\* the tokens issued so far
Minted == {TokenNames[i] : i \in 1 .. minted}

\* the record a lookup returned
TheRecord(found) ==
    CHOOSE rec \in found : TRUE

(* ------------------------ the environment ----------------------------- *)

Tick ==
    /\ clock < MaxClock
    /\ clock' = clock + 1
    /\ UNCHANGED <<store, upstream, minted, started, changes, req, load>>

\* the user changes the password at the primary provider
ChangePassword(c, p) ==
    /\ changes < load.changes
    /\ upstream[c].password # p
    /\ upstream' = [upstream EXCEPT ![c].password = p]
    /\ changes' = changes + 1
    /\ UNCHANGED <<store, clock, minted, started, req, load>>

\* the user changes the password at the secondary provider
ChangeGPassword(c, g) ==
    /\ changes < load.changes
    /\ IsGraduateCard(c)
    /\ upstream[c].gpassword # g
    /\ upstream' = [upstream EXCEPT ![c].gpassword = g]
    /\ changes' = changes + 1
    /\ UNCHANGED <<store, clock, minted, started, req, load>>

(* ------------------------------ auth ---------------------------------- *)

\* auth() calling the primary provider at once for every card number
AuthEntryPrimaryOnly(cardnum) ==
    "authP"

\* the position of a request that enters auth(): the first provider it awaits
AuthEntry(cardnum) ==
    IF IsGraduateCard(cardnum) THEN "authG" ELSE "authP"

\* catch (e) of auth with a login that fails inserting its record all
\* the same
CatchInserts(r, e) ==
    /\ store' = IF req[r].kind = "login"
                   THEN Insert(store,
                           NewRecord(TokenNames[minted + 1], req[r].cardnum,
                                     req[r].password, req[r].gpassword,
                                     req[r].platform, Profile(req[r].cardnum),
                                     clock))
                   ELSE StoreAfterCatch(store, e, req[r])
    /\ req' = [req EXCEPT ![r].pc = "done", ![r].err = e]
    /\ UNCHANGED minted

\* catch (e) of auth: the record is removed where it applies, e is thrown
\* again and fails the request
Catch(r, e) ==
    /\ store' = StoreAfterCatch(store, e, req[r])
    /\ req' = [req EXCEPT ![r].pc = "done", ![r].err = e]
    /\ UNCHANGED minted

\* auth resumes from graduateAuthProvider and calls authProvider
GraduateReturns(r) ==
    /\ req[r].pc = "authG"
    /\ \E out \in GraduateProvider(upstream, SubIdentity(req[r].cardnum),
                                   req[r].gpassword) :
          IF out = "ok"
             THEN /\ req' = [req EXCEPT ![r].pc = "authP"]
                  /\ UNCHANGED <<store, minted>>
             ELSE Catch(r, out)
    /\ UNCHANGED <<upstream, clock, started, changes, load>>

\* the code that follows a successful auth() in its three callers: the
\* refresh of the record, the insertion of a new record, the downstream
\* middleware that called ctx.useAuthCookie()
AfterAuth(r) ==
    LET q == req[r] IN
    CASE q.ret = "refresh" ->
            /\ store' = UpdateSecrets(store, q.cardnum, q.platform,
                           RefreshPatch(q.token, q.cardnum, q.password,
                                        q.gpassword))
            /\ req' = [req EXCEPT ![r].pc = "done", ![r].body = q.token]
            /\ UNCHANGED minted
      [] q.ret = "issue" ->
            LET token == TokenNames[minted + 1] IN
               /\ store' = Insert(store,
                              NewRecord(token, q.cardnum, q.password,
                                        q.gpassword, q.platform,
                                        Profile(q.cardnum), clock))
               /\ req' = [req EXCEPT ![r].pc = "done", ![r].token = token,
                                     ![r].body = token]
               /\ minted' = minted + 1
      [] OTHER ->
            /\ req' = [req EXCEPT ![r].pc = "done"]
            /\ UNCHANGED <<store, minted>>

\* auth resumes from authProvider; on success its caller continues
PrimaryReturns(r) ==
    /\ req[r].pc = "authP"
    /\ \E out \in PrimaryProvider(upstream, req[r].cardnum, req[r].password) :
          IF out = "ok" THEN AfterAuth(r) ELSE Catch(r, out)
    /\ UNCHANGED <<upstream, clock, started, changes, load>>

(* ------------------------------ login --------------------------------- *)

\* the login after its lookup: it answers with the token the password
\* decrypts, or calls auth to refresh the record or to issue a new token
LoginCompare(q) ==
    LET token == IF q.found = {} THEN ""
                 ELSE decrypt(q.password, TheRecord(q.found).tokenEncrypted)
    IN  IF token # ""
           THEN IF NeedsAuth(TheRecord(q.found), token, q.cardnum,
                             q.password, q.gpassword)
                   THEN [q EXCEPT !.pc = AuthEntry(q.cardnum),
                                  !.ret = "refresh", !.token = token]
                   ELSE [q EXCEPT !.pc = "done", !.token = token,
                                  !.body = token]
           ELSE [q EXCEPT !.pc = AuthEntry(q.cardnum), !.ret = "issue"]

\* ctx.method.toUpperCase()
toUpperCase(method) ==
    IF method = "post" THEN "POST" ELSE method

\* the checks of a login with the platform checked before the method
LoginGuardPlatformFirst(method, platform) ==
    IF platform = "" THEN EPlatform
    ELSE IF toUpperCase(method) # "POST" THEN E405
    ELSE NoError

\* the checks of a request to /auth before its lookup: the error it
\* throws, if any
LoginGuard(method, platform) ==
    IF toUpperCase(method) # "POST" THEN E405
    ELSE IF platform = "" THEN EPlatform
    ELSE NoError

\* a request to /auth that the checks reject
StartLoginInvalid(r, method, platform) ==
    /\ Free(r)
    /\ LoginGuard(method, platform) # NoError
    /\ started' = started + 1
    /\ req' = [req EXCEPT ![r] =
                  [IdleReq EXCEPT !.kind = "login", !.pc = "done",
                                  !.method = method, !.platform = platform,
                                  !.err = LoginGuard(method, platform)]]
    /\ UNCHANGED <<store, upstream, clock, minted, changes, load>>

\* POST /auth: the lookup of the existing record and what follows it
StartLogin(r, cardnum, password, gpassword, platform) ==
    /\ Free(r)
    /\ LoginGuard("POST", platform) = NoError
    /\ started' = started + 1
    /\ \E existing \in FindByPair(store, cardnum, platform) :
          req' = [req EXCEPT ![r] = LoginCompare(
                     [IdleReq EXCEPT !.kind = "login", !.method = "POST",
                         !.cardnum = cardnum, !.password = password,
                         !.gpassword = DefaultGPassword(gpassword, password),
                         !.platform = platform, !.found = existing])]
    /\ UNCHANGED <<store, upstream, clock, minted, changes, load>>

(* --------------------------- passthrough ------------------------------ *)

\* the anonymous branch: ctx.user gets the rejecting getters and the
\* downstream middleware is called
Anonymous(q) ==
    [q EXCEPT !.pc = "next", !.user = AnonymousUser, !.useAuthCookie = {},
              !.nextCalls = q.nextCalls + 1]

\* the same request failing with 401 when its token matches no record
StartPassthroughRejects(r, token) ==
    /\ Free(r)
    /\ started' = started + 1
    /\ \E record \in FindByTokenHash(store, hash(token)) :
          LET q == [IdleReq EXCEPT !.kind = "pass", !.hdr = token,
                                   !.found = record]
          IN  req' = [req EXCEPT ![r] = IF record = {}
                                           THEN [q EXCEPT !.pc = "done",
                                                          !.err = E401]
                                           ELSE [q EXCEPT !.pc = "touch"]]
    /\ UNCHANGED <<store, upstream, clock, minted, changes, load>>

\* a request to another path with a token header: the lookup of its
\* record; without a record it falls through to the anonymous branch
StartPassthrough(r, token) ==
    /\ Free(r)
    /\ started' = started + 1
    /\ \E record \in FindByTokenHash(store, hash(token)) :
          LET q == [IdleReq EXCEPT !.kind = "pass", !.hdr = token,
                                   !.found = record]
          IN  req' = [req EXCEPT ![r] = IF record = {}
                                           THEN Anonymous(q)
                                           ELSE [q EXCEPT !.pc = "touch"]]
    /\ UNCHANGED <<store, upstream, clock, minted, changes, load>>

\* the request updates lastInvoked, decrypts the passwords, exposes
\* ctx.user and ctx.useAuthCookie and calls the downstream middleware
PassTouch(r) ==
    /\ req[r].pc = "touch"
    /\ store' = UpdateLastInvoked(store, hash(req[r].hdr), clock)
    /\ LET record == TheRecord(req[r].found) IN
          req' = [req EXCEPT
                     ![r].pc = "next",
                     ![r].user = AuthenticatedUser(record, req[r].hdr),
                     ![r].useAuthCookie = {BoundAuth(record, req[r].hdr)},
                     ![r].nextCalls = req[r].nextCalls + 1]
    /\ UNCHANGED <<upstream, clock, minted, started, changes, load>>

\* a request to another path without a token header
StartAnonymous(r) ==
    /\ Free(r)
    /\ started' = started + 1
    /\ req' = [req EXCEPT ![r] = Anonymous([IdleReq EXCEPT !.kind = "anon"])]
    /\ UNCHANGED <<store, upstream, clock, minted, changes, load>>

(* ---------------------------- downstream ------------------------------ *)

\* the downstream middleware reads a property of ctx.user and returns,
\* unless the getter throws
DownRead(r, field) ==
    /\ req[r].pc = "next"
    /\ LET out == ReadOutcome(req[r].user, field) IN
          req' = [req EXCEPT ![r].pc = "done", ![r].read = out,
                             ![r].err = IF out = E401 THEN E401 ELSE NoError]
    /\ UNCHANGED <<store, upstream, clock, minted, started, changes, load>>

\* the downstream middleware calls ctx.useAuthCookie()
DownUseAuthCookie(r) ==
    /\ req[r].pc = "next"
    /\ IF req[r].useAuthCookie = {}
          THEN req' = [req EXCEPT ![r].pc = "done", ![r].ret = "cookie",
                                  ![r].err = E401]
          ELSE LET a == TheRecord(req[r].useAuthCookie) IN
                  req' = [req EXCEPT ![r].pc = AuthEntry(a.cardnum),
                                     ![r].ret = "cookie",
                                     ![r].cardnum = a.cardnum,
                                     ![r].password = a.password,
                                     ![r].gpassword = a.gpassword]
    /\ UNCHANGED <<store, upstream, clock, minted, started, changes, load>>

\* the downstream middleware returns
DownReturn(r) ==
    /\ req[r].pc = "next"
    /\ req' = [req EXCEPT ![r].pc = "done"]
    /\ UNCHANGED <<store, upstream, clock, minted, started, changes, load>>

(* -------------------------- specification ----------------------------- *)

Next ==
    \/ Tick
    \/ \E c \in load.cardnums, p \in Passwords : ChangePassword(c, p)
    \/ \E c \in load.cardnums, g \in GPasswords : ChangeGPassword(c, g)
    \/ \E r \in Req, m \in Methods, pf \in load.platforms \cup {""} :
          StartLoginInvalid(r, m, pf)
    \/ \E r \in Req, x \in LoginParams, pf \in load.platforms :
          StartLogin(r, x[1], x[2], x[3], pf)
    \/ \E r \in Req : GraduateReturns(r)
    \/ \E r \in Req : PrimaryReturns(r)
    \/ \E r \in Req, t \in Minted \cup {ForgedToken} : StartPassthrough(r, t)
    \/ \E r \in Req : PassTouch(r)
    \/ \E r \in Req : StartAnonymous(r)
    \/ \E r \in Req, f \in UserFields : DownRead(r, f)
    \/ \E r \in Req : DownUseAuthCookie(r)
    \/ \E r \in Req : DownReturn(r)

Spec == Init /\ [][Next]_vars

SpecSeq == InitSeq /\ [][Next]_vars

SpecWide == InitWide /\ [][Next]_vars

SpecCipher == InitCipher /\ [][Next]_vars

(* ------------------------------ claims -------------------------------- *)

\* the step in which a request starts in slot r
Starts(r) ==
    /\ started' = started + 1
    /\ \A o \in Req \ {r} : req'[o] = req[o]

\* the step in which request r resumes from a provider and ends
Returns(r) ==
    /\ req[r].pc \in {"authG", "authP"}
    /\ req'[r].pc = "done"

\* C1: in every reachable state the store holds at most one record for
\* each (cardnum, platform) pair.
C1_OneRecordPerPair ==
    \A a \in store, b \in store :
        (a.cardnum = b.cardnum /\ a.platform = b.platform) => a = b

\* C2: a login that found no record of its pair and that the providers
\* accept inserts exactly one record and answers with a token t such that
\* the record's tokenEncrypted decrypts to t under the password, tokenHash
\* is hash(t), passwordEncrypted decrypts to the password under t,
\* passwordHash is hash(password) and registered equals lastInvoked.
C2_FirstLoginInsertsRecord ==
    [][\A r \in Req :
          (/\ req[r].kind = "login"
           /\ req[r].found = {}
           /\ Returns(r)
           /\ req'[r].err = NoError)
          => LET t == req'[r].body
                 p == req[r].password
             IN  /\ t # ""
                 /\ store \subseteq store'
                 /\ Cardinality(store' \ store) = 1
                 /\ \A rec \in store' \ store :
                       /\ rec.cardnum = req[r].cardnum
                       /\ rec.platform = req[r].platform
                       /\ decrypt(p, rec.tokenEncrypted) = t
                       /\ rec.tokenHash = hash(t)
                       /\ decrypt(t, rec.passwordEncrypted) = p
                       /\ rec.passwordHash = hash(p)
                       /\ rec.registered = rec.lastInvoked]_vars

\* a first login has been answered and its record is in the store
C2_Witness ==
    \E r \in Req :
        /\ req[r].kind = "login"
        /\ req[r].pc = "done"
        /\ req[r].found = {}
        /\ req[r].body # ""
        /\ \E rec \in store : /\ rec.tokenHash = hash(req[r].body)
                              /\ rec.cardnum = req[r].cardnum


\* request r starts a login with the credentials of the login that slot o
\* has answered with a token before
LaterLogin(r, o) ==
    /\ o # r
    /\ req[o].kind = "login"
    /\ req[o].pc = "done"
    /\ req[o].body # ""
    /\ Starts(r)
    /\ req'[r].kind = "login"
    /\ req'[r].cardnum = req[o].cardnum
    /\ req'[r].platform = req[o].platform
    /\ req'[r].password = req[o].password
    /\ req'[r].gpassword = req[o].gpassword

\* the records of a (cardnum, platform) pair
RecordsOf(cardnum, platform) ==
    {rec \in store : rec.cardnum = cardnum /\ rec.platform = platform}

\* C3 as stated, for a pair that has never more than one record in the
\* store: once a login has been answered with token t, every later login
\* for the same pair with the same passwords is answered with t at once,
\* without a call of the providers and without a write to the store,
\* whatever requests ran in between.
C3_SameTokenAlways ==
    [][\A r \in Req, o \in Req :
          (/\ LaterLogin(r, o)
           /\ Cardinality(RecordsOf(req[o].cardnum, req[o].platform)) <= 1)
          => /\ req'[r].pc = "done"
             /\ req'[r].body = req[o].body
             /\ store' = store]_vars

\* C3 amended: the later login is answered with t at once, without a call
\* of the providers and without a write to the store, when its lookup
\* returns a record whose tokenEncrypted the password still decrypts to t
\* and whose passwordHash and secondary password still match.
C3_SameTokenWhileCached ==
    [][\A r \in Req, o \in Req :
          (/\ LaterLogin(r, o)
           /\ req'[r].found # {}
           /\ LET rec == TheRecord(req'[r].found) IN
                 /\ decrypt(req[o].password, rec.tokenEncrypted) = req[o].body
                 /\ rec.passwordHash = hash(req[o].password)
                 /\ HasGraduatePrefix(rec.cardnum)
                       => decrypt(req[o].body, rec.gpasswordEncrypted)
                             = req[o].gpassword)
          => /\ req'[r].pc = "done"
             /\ req'[r].body = req[o].body
             /\ req'[r].err = NoError
             /\ store' = store]_vars

\* a login has been answered with the token of an earlier login although
\* the providers no longer accept its password
C3_Witness ==
    \E r \in Req, o \in Req :
        /\ o # r
        /\ req[o].kind = "login" /\ req[o].pc = "done" /\ req[o].body # ""
        /\ req[r].kind = "login" /\ req[r].pc = "done"
        /\ req[r].found # {}
        /\ req[r].ret = "none"
        /\ req[r].cardnum = req[o].cardnum
        /\ req[r].password = req[o].password
        /\ req[r].gpassword = req[o].gpassword
        /\ req[r].body = req[o].body
        /\ upstream[req[r].cardnum].password # req[r].password


\* C4 as stated: a login that presents a password other than the one its
\* pair's record was written with, and that the providers accept, is
\* answered with the token t of that record, and afterwards the record
\* has a changed passwordHash, passwordEncrypted and tokenEncrypted, its
\* tokenEncrypted decrypts to t under the new password and under no other.
C4_ChangedPasswordKeepsToken ==
    [][\A r \in Req :
          (/\ req[r].kind = "login"
           /\ req[r].found # {}
           /\ TheRecord(req[r].found).passwordHash # hash(req[r].password)
           /\ Returns(r)
           /\ req'[r].err = NoError)
          => LET old == TheRecord(req[r].found)
                 p == req[r].password
                 t == req'[r].body
             IN  /\ hash(t) = old.tokenHash
                 /\ \E rec \in store' :
                       /\ rec.tokenHash = old.tokenHash
                       /\ rec.passwordHash = hash(p)
                       /\ rec.passwordEncrypted # old.passwordEncrypted
                       /\ rec.tokenEncrypted # old.tokenEncrypted
                       /\ decrypt(p, rec.tokenEncrypted) = t
                       /\ \A o \in Passwords \ {p} :
                             decrypt(o, rec.tokenEncrypted) # t]_vars

\* the step in which a login that found a record of its pair is rejected
\* by a provider with 401
RejectedLogin(r) ==
    /\ req[r].kind = "login"
    /\ req[r].found # {}
    /\ Returns(r)
    /\ req'[r].err = E401

\* C5 as stated: when a login whose pair has a record presents changed
\* credentials that the providers reject, it fails with 401 and the store
\* holds no record of its (cardnum, platform) when it completes.
C5_RejectedLoginDeletes ==
    [][\A r \in Req :
          RejectedLogin(r)
          => RecordsOf(req[r].cardnum, req[r].platform)' = {}]_vars

\* C5 amended: when a login whose pair has a record presents changed
\* credentials that the providers reject, it fails with 401, it is
\* answered with no token and it removes no record: the store is left as
\* it was, because the catch of auth removes a record only for a request
\* whose identity context is logged in, which a login request never is.
C5_RejectedLoginKeepsRecord ==
    [][\A r \in Req :
          /\ RejectedLogin(r)
                => /\ store' = store
                   /\ req'[r].body = ""
          /\ (/\ req[r].kind = "login"
              /\ req[r].pc = "authP"
              /\ upstream[req[r].cardnum].password # req[r].password
              /\ req'[r] # req[r])
                => /\ req'[r].pc = "done"
                   /\ req'[r].err \in {E401, EOther}
                   /\ store' = store]_vars

\* a login with a changed password has been rejected with 401 and the
\* record it had found is still in the store
C5_Witness ==
    \E r \in Req :
        /\ req[r].kind = "login"
        /\ req[r].pc = "done"
        /\ req[r].err = E401
        /\ req[r].found # {}
        /\ TheRecord(req[r].found).passwordHash # hash(req[r].password)
        /\ \E rec \in store :
              rec.tokenHash = TheRecord(req[r].found).tokenHash


\* the request in slot r has the anonymous identity context
IsAnonymous(r) ==
    /\ req[r].kind \in {"pass", "anon"}
    /\ req[r].pc \in {"next", "done"}
    /\ req[r].found = {}

\* C6 as stated: the anonymous identity context has isLogin = false,
\* reading isLogin never fails, and reading any other property of the
\* identity context, as well as calling useAuthCookie, fails with 401.
C6_AnonymousRejectsAll ==
    \A r \in Req :
        IsAnonymous(r)
        => /\ ~IsLoggedIn(req[r].user)
           /\ ReadOutcome(req[r].user, "isLogin") = "value"
           /\ \A f \in UserFields \ {"isLogin"} :
                 ReadOutcome(req[r].user, f) = E401
           /\ req[r].useAuthCookie = {}

\* C7: a request whose token matches no record raises no error, leaves
\* the store unchanged and calls the downstream middleware once, with the
\* anonymous identity context that a request without a token gets.
C7_UnknownTokenIsAnonymous ==
    [][\A r \in Req :
          (/\ req'[r].kind = "pass"
           /\ req'[r].found = {}
           /\ req'[r] # req[r])
          => /\ store' = store
             /\ req'[r].nextCalls = 1
             /\ req'[r].user = AnonymousUser
             /\ req'[r].useAuthCookie = {}
             /\ Starts(r) => (req'[r].pc = "next" /\ req'[r].err = NoError)
             /\ \A o \in Req :
                   (req'[o].kind = "anon" /\ req'[o].pc = "next")
                   => /\ req'[o].user = req'[r].user
                      /\ req'[o].useAuthCookie = req'[r].useAuthCookie
                      /\ req'[o].nextCalls = req'[r].nextCalls]_vars

\* a token that matches none of the records in the store and no token at
\* all have led two requests to the downstream middleware
C7_Witness ==
    \E r \in Req, o \in Req :
        /\ store # {}
        /\ req[r].kind = "pass"
        /\ req[r].found = {}
        /\ req[r].pc = "next"
        /\ req[o].kind = "anon"
        /\ req[o].pc = "next"


\* the step in which request r, whose token matched a record, updates
\* lastInvoked and calls the downstream middleware
Touches(r) ==
    /\ req[r].pc = "touch"
    /\ req'[r].pc = "next"

\* C8 as stated: a request with the token t of an existing record sets
\* that record's lastInvoked to the current time, not earlier than its
\* previous value, changes no other field of any record, and gives the
\* downstream middleware a logged-in identity context whose password is
\* the password that was encrypted into the record's passwordEncrypted and
\* whose token is hash(t).
C8_PassthroughContext ==
    [][\A r \in Req :
          Touches(r)
          => LET t == req[r].hdr
                 record == TheRecord(req[r].found)
                 u == req'[r].user
             IN  /\ store' = {IF rec.tokenHash = hash(t)
                                 THEN [rec EXCEPT !.lastInvoked = clock]
                                 ELSE rec : rec \in store}
                 /\ \A rec \in store :
                       rec.tokenHash = hash(t) => rec.lastInvoked <= clock
                 /\ IsLoggedIn(u)
                 /\ u.val.token = hash(t)
                 /\ u.val.token # t
                 /\ u.val.password = record.passwordEncrypted[2]]_vars

\* the step in which auth, called by ctx.useAuthCookie() of a logged-in
\* request, is rejected by a provider
RejectedCookie(r) ==
    /\ req[r].kind = "pass"
    /\ req[r].ret = "cookie"
    /\ IsLoggedIn(req[r].user)
    /\ Returns(r)
    /\ req'[r].err = E401

\* the request in slot r has called ctx.useAuthCookie() with token t and
\* has been rejected with 401
Revoked(r) ==
    /\ req[r].kind = "pass"
    /\ req[r].ret = "cookie"
    /\ req[r].pc = "done"
    /\ req[r].err = E401
    /\ IsLoggedIn(req[r].user)

\* C9: when ctx.useAuthCookie() of a request with token t is rejected by
\* a provider with 401, the records with tokenHash = hash(t) and no others
\* are removed from the store and the request fails with 401; every
\* request that later comes with t finds no record and gets the
\* anonymous identity context.
C9_RejectedCookieRevokes ==
    [][\A r \in Req :
          /\ RejectedCookie(r)
                => /\ store' = {rec \in store :
                                   rec.tokenHash # hash(req[r].hdr)}
                   /\ req'[r].pc = "done"
          /\ \A o \in Req \ {r} :
                (/\ Revoked(o)
                 /\ Starts(r)
                 /\ req'[r].kind = "pass"
                 /\ req'[r].hdr = req[o].hdr)
                => /\ req'[r].found = {}
                   /\ req'[r].pc = "next"
                   /\ req'[r].user = AnonymousUser]_vars

\* a request has been rejected in ctx.useAuthCookie(), the record of its
\* token is gone, and a later request with the same token is anonymous
C9_Witness ==
    \E r \in Req, o \in Req :
        /\ o # r
        /\ Revoked(o)
        /\ req[r].kind = "pass"
        /\ req[r].hdr = req[o].hdr
        /\ req[r].pc = "next"
        /\ req[r].user = AnonymousUser
        /\ \A rec \in store : rec.tokenHash # hash(req[o].hdr)

\* the step in which a provider fails for request r
ProviderFails(r) ==
    /\ Returns(r)
    /\ req'[r].err # NoError

\* C10 as stated: a failure of a provider that is not a rejection of the
\* credentials has the effect of a rejection: the request fails with 401,
\* and the record of a logged-in request is removed.
C10_AnyFailureIsUnauthorized ==
    [][\A r \in Req :
          ProviderFails(r)
          => /\ req'[r].err = E401
             /\ IsLoggedIn(req[r].user)
                   => store' = Remove(store, req[r].user.val.token)]_vars

\* C10 amended: a failure of a provider that is not a 401 fails the
\* request with that error, not with 401, and removes no record; only a
\* 401 removes the record of a logged-in request.
C10_OtherFailureKeepsRecord ==
    [][\A r \in Req :
          (ProviderFails(r) /\ req'[r].err # E401)
          => /\ req'[r].err = EOther
             /\ req'[r].body = ""
             /\ store' = store]_vars

\* ctx.useAuthCookie() of a logged-in request has failed with an error
\* that is not 401 and the record of its token is still in the store
C10_Witness ==
    \E r \in Req :
        /\ req[r].kind = "pass"
        /\ req[r].ret = "cookie"
        /\ req[r].pc = "done"
        /\ req[r].err = EOther
        /\ IsLoggedIn(req[r].user)
        /\ \E rec \in store : rec.tokenHash = hash(req[r].hdr)


\* C11: a request to /auth with a method other than POST fails with 405,
\* and a POST to /auth with a missing or empty platform fails with the
\* parameter error; both fail in the step in which they start, before any
\* lookup in the store and any call of the providers: the store is
\* unchanged, no token is answered and the downstream middleware is not
\* called.  When both conditions hold the error is 405.
C11_InvalidLoginFailsEarly ==
    [][\A r \in Req :
          (Starts(r) /\ req'[r].kind = "login")
          => LET q == req'[r]
                 early == /\ q.pc = "done"
                          /\ q.body = ""
                          /\ q.token = ""
                          /\ q.found = {}
                          /\ q.nextCalls = 0
                          /\ store' = store
                          /\ minted' = minted
             IN  /\ toUpperCase(q.method) # "POST"
                       => (q.err = E405 /\ early)
                 /\ (toUpperCase(q.method) = "POST" /\ q.platform = "")
                       => (q.err = EPlatform /\ early)
                 /\ (toUpperCase(q.method) = "POST" /\ q.platform # "")
                       => q.err \notin {E405, EPlatform}]_vars

\* a request to /auth with the method GET and no platform has failed with
\* 405 while the store holds a record
C11_Witness ==
    \E r \in Req :
        /\ req[r].kind = "login"
        /\ req[r].method = "GET"
        /\ req[r].platform = ""
        /\ req[r].pc = "done"
        /\ req[r].err = E405
        /\ store # {}


\* the step in which a login that found no usable record is accepted by
\* the providers and inserts its record
Issues(r) ==
    /\ req[r].kind = "login"
    /\ req[r].ret = "issue"
    /\ Returns(r)
    /\ req'[r].err = NoError

\* C12 as stated: the record a first login inserts for a card number that
\* matches the secondary-identity pattern of the gateway has a non-empty
\* gpasswordEncrypted that decrypts under the token to the secondary
\* password (the password when none was given), and the record inserted
\* for a card number to which the secondary provider does not apply has
\* an empty gpasswordEncrypted.
C12_GPasswordStoredIffSecondary ==
    [][\A r \in Req :
          Issues(r)
          => \A rec \in store' \ store :
                IF IsGraduateCard(req[r].cardnum)
                   THEN /\ rec.gpasswordEncrypted # <<>>
                        /\ req[r].gpassword # ""
                        /\ decrypt(req'[r].body, rec.gpasswordEncrypted)
                              = req[r].gpassword
                   ELSE rec.gpasswordEncrypted = <<>>]_vars


\* the fields of a record that are derived from its secrets
SecretsOf(rec) ==
    <<rec.passwordEncrypted, rec.gpasswordEncrypted, rec.tokenEncrypted,
      rec.passwordHash>>

\* the step inserts a record or changes the secret-derived fields of one
WritesSecrets ==
    \/ \E b \in store' : \A a \in store : a.tokenHash # b.tokenHash
    \/ \E a \in store, b \in store' :
          a.tokenHash = b.tokenHash /\ SecretsOf(a) # SecretsOf(b)

\* the request in slot r is a login that awaits the gateway
AwaitsGateway(r) ==
    /\ req[r].kind = "login"
    /\ req[r].pc \in {"authG", "authP"}

\* C13: a record is inserted and the secret-derived fields of a record are
\* changed only in the step in which a login resumes from a gateway that
\* has accepted it, and that step writes the four fields together, all from
\* the token and the passwords of that login; a login that the gateway
\* fails, and a login that is still at a suspension point before the
\* gateway has returned, has written nothing.
C13_WritesOnlyAfterGateway ==
    [][/\ WritesSecrets
            => \E r \in Req :
                  /\ AwaitsGateway(r)
                  /\ req[r].pc = "authP"
                  /\ req'[r].pc = "done"
                  /\ req'[r].err = NoError
                  /\ \A b \in store' :
                        \/ \E a \in store : /\ a.tokenHash = b.tokenHash
                                            /\ SecretsOf(a) = SecretsOf(b)
                        \/ LET t == req'[r].body
                               p == req[r].password
                           IN  /\ b.passwordEncrypted = encrypt(t, p)
                               /\ b.tokenEncrypted = encrypt(p, t)
                               /\ b.passwordHash = hash(p)
                               /\ b.gpasswordEncrypted
                                     \in {<<>>, encrypt(t, req[r].gpassword)}
       /\ \A r \in Req :
             (/\ AwaitsGateway(r)
              /\ req'[r] # req[r]
              /\ req'[r].err # NoError \/ req'[r].pc \in {"authG", "authP"})
             => ~WritesSecrets]_vars

\* one login has been rejected by the gateway on its way to a refresh,
\* another awaits the gateway, and the record of an earlier login is in
\* the store as that login wrote it
C13_Witness ==
    \E r \in Req, o \in Req :
        /\ req[r].kind = "login"
        /\ req[r].pc = "done"
        /\ req[r].ret = "refresh"
        /\ req[r].err = E401
        /\ AwaitsGateway(o)
        /\ \E rec \in store :
              /\ rec.tokenHash = hash(req[r].token)
              /\ rec.passwordEncrypted # encrypt(req[r].token, req[r].password)
                 \/ rec.gpasswordEncrypted
                       # encrypt(req[r].token, req[r].gpassword)


\* the step in which a login that decrypted the token of a record and was
\* sent to the gateway is accepted and refreshes the record
Refreshes(r) ==
    /\ req[r].kind = "login"
    /\ req[r].ret = "refresh"
    /\ Returns(r)
    /\ req'[r].err = NoError

\* the tokenHash values in a store
Hashes(s) ==
    {rec.tokenHash : rec \in s}

\* C14 as stated: a login for a secondary-identity card number that
\* presents the password of the record it found and another secondary
\* password, and that the gateway accepts, is answered with the token t of
\* that record and inserts no record; afterwards the record of t has a
\* gpasswordEncrypted that decrypts under t to the new secondary password,
\* and a request that comes with t finds it, is logged in and sees the new
\* secondary password.
C14_SecondaryRefreshKeepsSession ==
    [][\A r \in Req :
          (/\ Refreshes(r)
           /\ IsGraduateCard(req[r].cardnum)
           /\ TheRecord(req[r].found).passwordHash = hash(req[r].password)
           /\ decrypt(req[r].token, TheRecord(req[r].found).gpasswordEncrypted)
                 # req[r].gpassword)
          => LET t == req'[r].body
                 g == req[r].gpassword
             IN  /\ hash(t) = TheRecord(req[r].found).tokenHash
                 /\ Hashes(store') = Hashes(store)
                 /\ \E rec \in store' : /\ rec.tokenHash = hash(t)
                                        /\ decrypt(t, rec.gpasswordEncrypted) = g
                 /\ \A record \in FindByTokenHash(store', hash(t)) :
                       /\ record # {}
                       /\ LET u == AuthenticatedUser(TheRecord(record), t)
                          IN  IsLoggedIn(u) /\ u.val.gpassword = g]_vars


\* the trailing six characters of a card number
LastSix(cardnum) ==
    [i \in 1 .. 6 |-> cardnum[Len(cardnum) - 6 + i]]

\* the secondary provider accepts this sub-identity with this password
SecondaryAccepts(subIdentity, gpassword) ==
    \E c \in DOMAIN upstream :
        /\ IsGraduateCard(c)
        /\ LastSix(c) = subIdentity
        /\ upstream[c].gpassword = gpassword

\* C15: the gateway calls the secondary provider only for a card number
\* that matches the secondary-identity pattern, and calls it first, with
\* the trailing six digits and the secondary password; for such a card
\* number it calls the primary provider only after the secondary provider
\* has accepted, and for any other card number it calls the primary
\* provider alone.  The gateway returns a profile only when the primary
\* provider has accepted; when a provider fails the gateway fails, no
\* token is answered and no record is inserted or refreshed.
C15_SecondaryBeforePrimary ==
    [][\A r \in Req :
          LET q == req[r]
              n == req'[r]
          IN  /\ (n.pc = "authG" /\ q.pc # "authG")
                    => /\ IsGraduateCard(n.cardnum)
                       /\ q.pc # "authP"
              /\ (n.pc = "authP" /\ q.pc # "authP")
                    => IF IsGraduateCard(n.cardnum)
                          THEN /\ q.pc = "authG"
                               /\ n.cardnum = q.cardnum
                               /\ SecondaryAccepts(LastSix(q.cardnum),
                                                   q.gpassword)
                          ELSE q.pc # "authG"
              /\ (q.pc = "authG" /\ n # q)
                    => \/ n.pc = "authP"
                       \/ n.pc = "done" /\ n.err # NoError
              /\ (q.pc = "authP" /\ n # q)
                    => /\ n.pc = "done"
                       /\ n.err = NoError
                             => upstream[q.cardnum].password = q.password
              /\ (q.pc \in {"authG", "authP"} /\ n.pc = "done"
                     /\ n.err # NoError)
                    => /\ n.body = ""
                       /\ ~WritesSecrets]_vars

\* a login for a secondary-identity card number has passed both providers
\* and another has been rejected by the secondary provider although the
\* primary provider would have accepted it
C15_Witness ==
    \E r \in Req, o \in Req :
        /\ req[r].kind = "login" /\ req[r].pc = "done"
        /\ IsGraduateCard(req[r].cardnum)
        /\ req[r].ret = "issue"
        /\ req[r].body # ""
        /\ req[o].kind = "login" /\ req[o].pc = "done"
        /\ IsGraduateCard(req[o].cardnum)
        /\ req[o].err = E401
        /\ upstream[req[o].cardnum].password = req[o].password
        /\ upstream[req[o].cardnum].gpassword # req[o].gpassword


\* C16 as stated: every record in the store is internally consistent:
\* there are one token t and one password p, and a secondary password g,
\* such that tokenHash = hash(t), tokenEncrypted = encrypt(p, t),
\* passwordEncrypted = encrypt(t, p), passwordHash = hash(p) and
\* gpasswordEncrypted is empty or encrypt(t, g).
C16_RecordsConsistent ==
    \A rec \in store :
        \E t \in Minted, p \in Passwords :
            /\ rec.tokenHash = hash(t)
            /\ rec.tokenEncrypted = encrypt(p, t)
            /\ rec.passwordEncrypted = encrypt(t, p)
            /\ rec.passwordHash = hash(p)
            /\ \/ rec.gpasswordEncrypted = <<>>
               \/ \E g \in GPasswords \cup Passwords :
                     rec.gpasswordEncrypted = encrypt(t, g)


\* what encrypt can return for these keys and values: the empty string or
\* the ciphertext of a value under a key
Ciphertexts(keys, values) ==
    {<<>>} \cup {<<k, v>> : k \in keys, v \in values}

\* C17: no field of a stored record is a raw token or a raw password:
\* tokenHash and passwordHash are digests, and tokenEncrypted,
\* passwordEncrypted and gpasswordEncrypted are ciphertexts under a
\* password or a token, or the empty string; when encrypt fails what is
\* stored is the empty string.
C17_NoPlaintextStored ==
    \A rec \in store :
        /\ rec.tokenHash \in {hash(t) : t \in Minted}
        /\ rec.passwordHash \in {hash(p) : p \in Passwords}
        /\ rec.tokenEncrypted \in Ciphertexts(Passwords, Minted)
        /\ rec.passwordEncrypted \in Ciphertexts(Minted, Passwords)
        /\ rec.gpasswordEncrypted
              \in Ciphertexts(Minted, GPasswords \cup Passwords)
        /\ ~load.cipherKnown
              => /\ rec.tokenEncrypted = <<>>
                 /\ rec.passwordEncrypted = <<>>
                 /\ rec.gpasswordEncrypted = <<>>

\* with a cipher that is not known, a login for a secondary-identity card
\* number has inserted a record and been answered with its token
C17_Witness ==
    /\ ~load.cipherKnown
    /\ \E r \in Req, rec \in store :
          /\ req[r].kind = "login"
          /\ req[r].pc = "done"
          /\ HasGraduatePrefix(req[r].cardnum)
          /\ req[r].body # ""
          /\ rec.tokenHash = hash(req[r].body)
          /\ rec.gpasswordEncrypted = <<>>


\* the token whose digest is this tokenHash
TokenOf(tokenHash) ==
    CHOOSE t \in Minted : hash(t) = tokenHash

\* C18: the context a request gets from the record of its token has the
\* identity hash(cardnum + name) and the platform of that record, and for
\* every record of the same person on another platform the context of
\* that record's token has the same identity, another token and its own
\* platform; the platform of a record is the platform of the login that
\* issued its token, and no step changes the platform, the cardnum or the
\* name of a record.
C18_IdentityAcrossPlatforms ==
    [][/\ \A r \in Req :
             Touches(r)
             => LET u == req'[r].user
                    record == TheRecord(req[r].found)
                IN  /\ u.val.identity
                          = hash(Concat(record.cardnum, record.name))
                    /\ u.val.platform = record.platform
                    /\ \A other \in store :
                          (/\ other.cardnum = record.cardnum
                           /\ other.name = record.name
                           /\ other.platform # record.platform)
                          => LET v == AuthenticatedUser(other,
                                         TokenOf(other.tokenHash))
                             IN  /\ v.val.identity = u.val.identity
                                 /\ v.val.token # u.val.token
                                 /\ v.val.platform = other.platform
       /\ \A r \in Req :
             Issues(r)
             => \A rec \in store' \ store :
                   /\ rec.platform = req[r].platform
                   /\ rec.tokenHash = hash(req'[r].body)
       /\ \A a \in store, b \in store' :
             a.tokenHash = b.tokenHash
             => /\ a.platform = b.platform
                /\ a.cardnum = b.cardnum
                /\ a.name = b.name]_vars

\* a person has logged in on two platforms and a request with one of the
\* two tokens has reached the downstream middleware
C18_Witness ==
    \E r \in Req, a \in store, b \in store :
        /\ req[r].kind = "pass"
        /\ req[r].pc = "next"
        /\ IsLoggedIn(req[r].user)
        /\ a.tokenHash = req[r].user.val.token
        /\ a.platform = req[r].user.val.platform
        /\ b.cardnum = a.cardnum
        /\ b.name = a.name
        /\ b.platform # a.platform


\* C19 as stated: the card numbers for which a secondary password is
\* stored are card numbers the gateway sends to the secondary provider:
\* every record with a non-empty gpasswordEncrypted belongs to a card
\* number that matches the pattern of the gateway, so that the secondary
\* provider has accepted the secondary password in the login that wrote
\* it.
C19_StoredSecondaryWasValidated ==
    \A rec \in store :
        rec.gpasswordEncrypted # <<>> => IsGraduateCard(rec.cardnum)

====
